---- MODULE Spec2Model ----
(***************************************************************************)
(* Model of json-schema-tools: the reference grammar (lib/src/reference.rs)*)
(* and the composition algorithm (lib/src/compose.rs).                     *)
(*                                                                         *)
(* Strings are sequences of one-character strings, so that parsing,        *)
(* formatting and concatenation are computed character by character.       *)
(* JSON values are tagged records; an object is an ordered sequence of     *)
(* [k, v] fields (serde_json::Map with insertion order preserved).         *)
(***************************************************************************)
EXTENDS Naturals, Sequences, FiniteSets, TLC

VARIABLES
    base,           \* compose argument `base`
    sub_schemas,    \* compose argument `sub_schemas`: sequence of [prefix, doc]
    result,         \* local `result` (the clone of base being mutated)
    prefixes,       \* local `prefixes`: HashMap id -> Option<String>
    idx,            \* number of sub-schemas the loop has finished
    cur,            \* locals of the running loop iteration
    pc,             \* position inside compose
    err,            \* the Err(..) compose returned, when pc = "failed"
    rstr0,          \* reference round trip: the string given to parse
    rref0,          \* reference round trip: the Reference given to Display
    rstr,           \* reference round trip: latest string produced
    rres,           \* reference round trip: latest parse result
    rpc             \* reference round trip: position

vars == <<base, sub_schemas, result, prefixes, idx, cur, pc, err,
          rstr0, rref0, rstr, rres, rpc>>

composeVars == <<base, sub_schemas, result, prefixes, idx, cur, pc, err>>
refVars == <<rstr0, rref0, rstr, rres, rpc>>

----------------------------------------------------------------------------
(* Bounds *)

MaxSubs == 2        \* longest list of sub-schemas given to compose
MaxPieces == 5      \* longest reference string, counted in pieces
MaxSegs == 2        \* longest path_prefix of a generated Reference

----------------------------------------------------------------------------
(* Characters and strings *)

WordChars ==
    {"a","b","c","d","e","f","g","h","i","j","k","l","m","n","o","p","q","r",
     "s","t","u","v","w","x","y","z","_","0","1","2","3","4","5","6","7","8","9"}

IsWord(str) == \A n \in 1..Len(str) : str[n] \in WordChars

StartsWith(str, c) == Len(str) > 0 /\ str[1] = c

Contains(str, c) == \E n \in 1..Len(str) : str[n] = c

\* index of the first occurrence of c in str, 0 when there is none
IndexOf(str, c) ==
    IF Contains(str, c)
    THEN CHOOSE n \in 1..Len(str) : str[n] = c /\ \A m \in 1..(n-1) : str[m] # c
    ELSE 0

\* index of the last occurrence of c in str, 0 when there is none
LastIndexOf(str, c) ==
    IF Contains(str, c)
    THEN CHOOSE n \in 1..Len(str) : str[n] = c /\ \A m \in (n+1)..Len(str) : str[m] # c
    ELSE 0

\* str::split(c): the pieces between the occurrences of c ("" splits to [""])
RECURSIVE Split(_, _)
Split(str, c) ==
    LET n == IndexOf(str, c)
    IN IF n = 0
       THEN <<str>>
       ELSE <<SubSeq(str, 1, n-1)>> \o Split(SubSeq(str, n+1, Len(str)), c)

RECURSIVE Flatten(_)
Flatten(strs) == IF strs = <<>> THEN <<>> ELSE Head(strs) \o Flatten(Tail(strs))

ID_KEY == <<"$","i","d">>
DEFS_KEY == <<"$","d","e","f","s">>
REF_KEY == <<"$","r","e","f">>

----------------------------------------------------------------------------
(* Option<T>: <<>> is None, <<x>> is Some(x) *)

None == <<>>
Some(x) == <<x>>
IsSome(o) == o # <<>>

----------------------------------------------------------------------------
(* reference.rs: Reference *)

PathOnly(path_prefix, path_name) ==
    [variant |-> "PathOnly", path_prefix |-> path_prefix, path_name |-> path_name]

FragmentOnly(fragment_name) ==
    [variant |-> "FragmentOnly", fragment_name |-> fragment_name]

Both(path_prefix, path_name, fragment_name) ==
    [variant |-> "Both", path_prefix |-> path_prefix, path_name |-> path_name,
     fragment_name |-> fragment_name]

\* "/{}" written for every part
RECURSIVE WriteParts(_)
WriteParts(parts) ==
    IF parts = <<>> THEN <<>> ELSE (<<"/">> \o Head(parts)) \o WriteParts(Tail(parts))

\* to_string with the path_prefix loop of the Both arm left out
to_string_no_prefix(ref) ==
    CASE ref.variant = "PathOnly" ->
            WriteParts(ref.path_prefix) \o <<"/">> \o ref.path_name
      [] ref.variant = "FragmentOnly" ->
            <<"#", "/">> \o DEFS_KEY \o <<"/">> \o ref.fragment_name
      [] ref.variant = "Both" ->
            <<"/">> \o ref.path_name
                \o <<"#", "/">> \o DEFS_KEY \o <<"/">> \o ref.fragment_name

\* impl Display for Reference
to_string(ref) ==
    CASE ref.variant = "PathOnly" ->
            WriteParts(ref.path_prefix) \o <<"/">> \o ref.path_name
      [] ref.variant = "FragmentOnly" ->
            <<"#", "/">> \o DEFS_KEY \o <<"/">> \o ref.fragment_name
      [] ref.variant = "Both" ->
            WriteParts(ref.path_prefix) \o <<"/">> \o ref.path_name
                \o <<"#", "/">> \o DEFS_KEY \o <<"/">> \o ref.fragment_name

\* path with the Both arm answering None
path_both_none(ref) ==
    CASE ref.variant = "PathOnly" -> Some(to_string(ref))
      [] ref.variant = "Both" -> None
      [] ref.variant = "FragmentOnly" -> None

\* path with the FragmentOnly arm answering an empty path
path_fragment_some(ref) ==
    CASE ref.variant = "PathOnly" -> Some(to_string(ref))
      [] ref.variant = "Both" ->
            Some(to_string(PathOnly(ref.path_prefix, ref.path_name)))
      [] ref.variant = "FragmentOnly" -> Some(<<>>)

\* Reference::path
path(ref) ==
    CASE ref.variant = "PathOnly" -> Some(to_string(ref))
      [] ref.variant = "Both" ->
            Some(to_string(PathOnly(ref.path_prefix, ref.path_name)))
      [] ref.variant = "FragmentOnly" -> None

\* name with the Both arm answering the path name
name_path_first(ref) ==
    CASE ref.variant = "PathOnly" -> ref.path_name
      [] ref.variant = "Both" -> ref.path_name
      [] ref.variant = "FragmentOnly" -> ref.fragment_name

\* Reference::name
name(ref) ==
    CASE ref.variant = "PathOnly" -> ref.path_name
      [] ref.variant = "Both" -> ref.fragment_name
      [] ref.variant = "FragmentOnly" -> ref.fragment_name

\* the path alternative of REF_PATTERN, (?:/\w+)*/\w+ : one or more groups
\* of "/" followed by a non-empty run of word characters
PathMatches(p) ==
    /\ StartsWith(p, "/")
    /\ LET segs == Tail(Split(p, "/"))
       IN \A n \in 1..Len(segs) : segs[n] # <<>> /\ IsWord(segs[n])

FragLiteral == <<"#", "/", "$", "d", "e", "f", "s", "/">>

\* the fragment alternative of REF_PATTERN, #/\$defs/\w+
FragMatches(f) ==
    /\ Len(f) > Len(FragLiteral)
    /\ SubSeq(f, 1, Len(FragLiteral)) = FragLiteral
    /\ IsWord(SubSeq(f, Len(FragLiteral) + 1, Len(f)))

\* REF_PATTERN.captures(s), groups 1..3 : None when the pattern does not
\* match, otherwise Some(<<g1, g2, g3>>), every group an Option<&str>
CapturesOf(p, f, l) ==
    IF (p = <<>> \/ PathMatches(p)) /\ (f = <<>> \/ FragMatches(f))
    THEN Some(<< IF p = <<>> THEN None ELSE Some(SubSeq(p, 1, l-1)),
                 IF p = <<>> THEN None ELSE Some(SubSeq(p, l+1, Len(p))),
                 IF f = <<>> THEN None
                 ELSE Some(SubSeq(f, Len(FragLiteral) + 1, Len(f))) >>)
    ELSE None

\* the text is cut at its first "#": the path alternative before it, the
\* fragment alternative from it on
CutAt(str, h) ==
    CapturesOf(IF h = 0 THEN str ELSE SubSeq(str, 1, h-1),
               IF h = 0 THEN <<>> ELSE SubSeq(str, h, Len(str)),
               LastIndexOf(IF h = 0 THEN str ELSE SubSeq(str, 1, h-1), "/"))

Captures(str) == CutAt(str, IndexOf(str, "#"))

RefErr(reason, value) == [ok |-> FALSE, reason |-> reason, value |-> value]
RefOk(ref) == [ok |-> TRUE, ref |-> ref]

\* from_str, lines 127-166: the captures turned into a Reference
from_captures(str, caps) ==
    IF ~IsSome(caps)
    THEN RefErr("InvalidStructure", str)
    ELSE LET parts == caps[1]
         IN CASE IsSome(parts[1]) /\ IsSome(parts[2]) /\ IsSome(parts[3]) ->
                    RefOk(Both(Tail(Split(parts[1][1], "/")),
                               parts[2][1], parts[3][1]))
              [] IsSome(parts[1]) /\ IsSome(parts[2]) /\ ~IsSome(parts[3]) ->
                    RefOk(PathOnly(Tail(Split(parts[1][1], "/")),
                                   parts[2][1]))
              [] ~IsSome(parts[1]) /\ ~IsSome(parts[2]) /\ IsSome(parts[3]) ->
                    RefOk(FragmentOnly(parts[3][1]))
              [] OTHER -> RefErr("InvalidStructure", str)

\* from_str with the query test made before the scheme test
from_str_query_first(str) ==
    IF Contains(str, "?")
    THEN RefErr("HasQuery", str)
    ELSE IF ~StartsWith(str, "/") /\ ~StartsWith(str, "#")
    THEN RefErr("HasScheme", str)
    ELSE from_captures(str, Captures(str))

\* impl FromStr for Reference
from_str(str) ==
    IF ~StartsWith(str, "/") /\ ~StartsWith(str, "#")
    THEN RefErr("HasScheme", str)
    ELSE IF Contains(str, "?")
    THEN RefErr("HasQuery", str)
    ELSE from_captures(str, Captures(str))

----------------------------------------------------------------------------
(* serde_json::Value, with Map keeping insertion order *)

Null == [t |-> "null"]
Num(n) == [t |-> "number", n |-> n]
Str(str) == [t |-> "string", s |-> str]
Arr(items) == [t |-> "array", a |-> items]
Obj(fields) == [t |-> "object", f |-> fields]
Fld(key, value) == [k |-> key, v |-> value]

\* position of key among the fields of a Map, 0 when absent (keys are unique)
map_index(fields, key) ==
    IF \E n \in 1..Len(fields) : fields[n].k = key
    THEN CHOOSE n \in 1..Len(fields) : fields[n].k = key
    ELSE 0

\* Value::get(key): Some(field value) only for an object that has the key
get(value, key) ==
    IF value.t = "object" /\ map_index(value.f, key) # 0
    THEN Some(value.f[map_index(value.f, key)].v)
    ELSE None

\* Map::insert leaving the value of an existing key as it is
map_insert_keep_first(fields, key, value) ==
    IF map_index(fields, key) = 0
    THEN Append(fields, Fld(key, value))
    ELSE fields

\* Map::insert: an existing key keeps its position and gets the new value,
\* a new key is appended
map_insert(fields, key, value) ==
    LET n == map_index(fields, key)
    IN IF n = 0
       THEN Append(fields, Fld(key, value))
       ELSE [fields EXCEPT ![n] = Fld(key, value)]

\* Map::remove with insertion order preserved is IndexMap::swap_remove: the
\* last field takes the place of the removed one
map_remove(fields, key) ==
    LET n == map_index(fields, key)
        last == Len(fields)
    IN IF n = 0
       THEN fields
       ELSE IF n = last
       THEN SubSeq(fields, 1, last - 1)
       ELSE SubSeq([fields EXCEPT ![n] = fields[last]], 1, last - 1)

----------------------------------------------------------------------------
(* compose.rs *)

MissingId(value) == [kind |-> "MissingId", value |-> value]
InvalidId(str) == [kind |-> "InvalidId", value |-> str]
InvalidRef(e) == [kind |-> "InvalidRef", reason |-> e.reason, value |-> e.value]
MissingDefs(value) == [kind |-> "MissingDefs", value |-> value]
NoError == [kind |-> "none"]

Ok(value) == [ok |-> TRUE, value |-> value]
Err(e) == [ok |-> FALSE, err |-> e]

\* Option::unwrap_or_default on an Option<&str>
unwrap_or_default(o) == IF IsSome(o) THEN o[1] ELSE <<>>

\* the closure of lines 40-48, capturing path_prefix and path_name
promote_closure(path_prefix, path_name) ==
    [fn |-> "promote", path_prefix |-> path_prefix, path_name |-> path_name]

\* the closure of lines 71-88, capturing prefixes
resolve_closure(registry) == [fn |-> "resolve", prefixes |-> registry]

\* body of the closure of lines 40-48
call_promote(f, old_reference) ==
    IF old_reference.variant = "FragmentOnly"
    THEN Ok(Some(Both(f.path_prefix, f.path_name, old_reference.fragment_name)))
    ELSE Ok(None)

\* resolve_path leaving a reference to an unregistered identifier as it is
resolve_path_lenient(f, old_reference, value) ==
    IF value \notin DOMAIN f.prefixes
    THEN Ok(None)
    ELSE Ok(Some(FragmentOnly(
            unwrap_or_default(f.prefixes[value]) \o name(old_reference))))

\* lines 74-87: the closure given to Option::map on old_reference.path()
resolve_path(f, old_reference, value) ==
    IF value \notin DOMAIN f.prefixes
    THEN Err(InvalidId(to_string(old_reference)))
    ELSE Ok(Some(FragmentOnly(
            unwrap_or_default(f.prefixes[value]) \o name(old_reference))))

\* lines 72-88: map over old_reference.path(), then map_or(Ok(None), ..)
map_path(f, old_reference, p) ==
    IF ~IsSome(p) THEN Ok(None) ELSE resolve_path(f, old_reference, p[1])

\* body of the closure of lines 71-88
call_resolve(f, old_reference) == map_path(f, old_reference, path(old_reference))

call(f, old_reference) ==
    IF f.fn = "promote"
    THEN call_promote(f, old_reference)
    ELSE call_resolve(f, old_reference)

\* lines 130-132: the field overwritten when f answers Some(new_reference)
write_reference(fields, n, new_reference) ==
    IF ~new_reference.ok
    THEN new_reference
    ELSE IF IsSome(new_reference.value)
    THEN Ok([fields EXCEPT ![n].v = Str(to_string(new_reference.value[1]))])
    ELSE Ok(fields)

\* lines 128-130: a parse error ends the walk, a Reference is given to f
with_previous(fields, n, f, previous_reference) ==
    IF ~previous_reference.ok
    THEN Err(InvalidRef(previous_reference))
    ELSE write_reference(fields, n, call(f, previous_reference.ref))

\* lines 126-134: the $ref field of an object, parsed, given to f, rewritten
modify_ref_field(fields, f) ==
    LET n == map_index(fields, REF_KEY)
    IN IF n = 0 \/ fields[n].v.t # "string"
       THEN Ok(fields)
       ELSE with_previous(fields, n, f, from_str(fields[n].v.s))

RECURSIVE modify_references(_, _)
RECURSIVE modify_each(_, _)
RECURSIVE modify_rest(_, _, _)
RECURSIVE modify_fields(_, _)

\* the values modified so far followed by those of the rest of the loop
modified(value, rest) ==
    IF ~rest.ok THEN rest ELSE Ok(<<value>> \o rest.value)

\* `modify_references(value, f)?` inside a loop: an error ends the loop
modify_rest(h, values, f) ==
    IF ~h.ok THEN h ELSE modified(h.value, modify_each(values, f))

\* the two loops of modify_references (lines 122-124 and 136-138): the
\* values in order, stopping at the first error
modify_each(values, f) ==
    IF values = <<>>
    THEN Ok(<<>>)
    ELSE modify_rest(modify_references(Head(values), f), Tail(values), f)

\* the array with its modified elements
modified_array(r) == IF r.ok THEN Ok(Arr(r.value)) ELSE r

\* the object with its modified field values, keys and order as they were
modified_object(fields, r) ==
    IF r.ok
    THEN Ok(Obj([n \in 1..Len(fields) |-> Fld(fields[n].k, r.value[n])]))
    ELSE r

\* lines 136-138, after the $ref field of the object has been dealt with
modify_fields(own, f) ==
    IF ~own.ok
    THEN own
    ELSE modified_object(own.value,
            modify_each([n \in 1..Len(own.value) |-> own.value[n].v], f))

modify_references(value, f) ==
    IF value.t = "array"
    THEN modified_array(modify_each(value.a, f))
    ELSE IF value.t = "object"
    THEN modify_fields(modify_ref_field(value.f, f), f)
    ELSE Ok(value)

\* get_id
get_id(value) ==
    LET id == get(value, ID_KEY)
    IN IF IsSome(id) /\ id[1].t = "string"
       THEN Ok(id[1].s)
       ELSE Err(MissingId(value))

\* get_top_level_def testing the keys against $id only
get_top_level_def_id_only(value) ==
    IF value.t = "object"
    THEN IF \E n \in 1..Len(value.f) : value.f[n].k # ID_KEY
         THEN Some(Obj(map_remove(value.f, DEFS_KEY)))
         ELSE None
    ELSE None

\* get_top_level_def
get_top_level_def(value) ==
    IF value.t = "object"
    THEN IF \E n \in 1..Len(value.f) :
                value.f[n].k # ID_KEY /\ value.f[n].k # DEFS_KEY
         THEN Some(Obj(map_remove(value.f, DEFS_KEY)))
         ELSE None
    ELSE None

\* get_defs without the as_object_mut test
get_defs_any(value) ==
    LET d == get(value, DEFS_KEY)
    IN IF IsSome(d)
       THEN Some(IF d[1].t = "object" THEN d[1].f ELSE <<>>)
       ELSE None

\* lines 19-22: result.get_mut(DEFS_KEY).and_then(as_object_mut)
get_defs(value) ==
    LET d == get(value, DEFS_KEY)
    IN IF IsSome(d) /\ d[1].t = "object" THEN Some(d[1].f) ELSE None

\* `defs` is a mutable borrow of result[DEFS_KEY]: writing through it
set_defs(value, fields) ==
    Obj([value.f EXCEPT ![map_index(value.f, DEFS_KEY)].v = Obj(fields)])

\* match_id accepting every variant with a path
match_id_any_path(id, r) ==
    IF r.ok /\ r.ref.variant \in {"PathOnly", "Both"}
    THEN Ok(r.ref)
    ELSE Err(InvalidId(id))

\* lines 30-36: the match on the parse result, PathOnly or InvalidId
match_id(id, r) ==
    IF r.ok /\ r.ref.variant = "PathOnly"
    THEN Ok(r.ref)
    ELSE Err(InvalidId(id))

\* lines 30-36: the id must parse as Reference::PathOnly
parse_id(id) == match_id(id, from_str(id))

\* HashMap::insert
hash_insert(map, key, value) ==
    [x \in (DOMAIN map) \cup {key} |-> IF x = key THEN value ELSE map[x]]

\* lines 62-67: every entry of the sub-schema's $defs inserted in order
RECURSIVE insert_fields(_, _, _)
insert_fields(defs, prefix, fields) ==
    IF fields = <<>>
    THEN defs
    ELSE insert_fields(
            map_insert(defs, unwrap_or_default(prefix) \o Head(fields).k,
                       Head(fields).v),
            prefix, Tail(fields))

----------------------------------------------------------------------------
(* The documents compose is run on *)

k_type == <<"t","y","p","e">>

k_items == <<"i","t","e","m","s">>

k_enum == <<"e","n","u","m">>

k_properties == <<"p","r","o","p","e","r","t","i","e","s">>

k_anyOf == <<"a","n","y","O","f">>

k_foo == <<"f","o","o">>

k_baz == <<"b","a","z">>

k_loc == <<"l","o","c">>

n_a == <<"a">>

n_b == <<"b">>

n_x == <<"x">>

n_k == <<"k">>

s_integer == <<"i","n","t","e","g","e","r">>

s_boolean == <<"b","o","o","l","e","a","n">>

s_array == <<"a","r","r","a","y">>

s_object == <<"o","b","j","e","c","t">>

id_s_a == <<"/","s","/","a">>

id_s_b == <<"/","s","/","b">>

id_b == <<"/","b">>

id_both == <<"/","s","/","a","#","/","$","d","e","f","s","/","x">>

id_scheme == <<"s","/","a">>

ref_s_a == <<"/","s","/","a">>

ref_s_b_x == <<"/","s","/","b","#","/","$","d","e","f","s","/","x">>

ref_s_a_x == <<"/","s","/","a","#","/","$","d","e","f","s","/","x">>

ref_b == <<"/","b">>
ref_s_b == <<"/","s","/","b">>
ref_b_b == <<"/","b","#","/","$","d","e","f","s","/","b">>

ref_local_x == <<"#","/","$","d","e","f","s","/","x">>

ref_local_k == <<"#","/","$","d","e","f","s","/","k">>

ref_local_a == <<"#","/","$","d","e","f","s","/","a">>

ref_unknown == <<"/","u","/","z">>

ref_scheme == <<"s","/","a">>

pre_p == <<"p","_">>

pre_q == <<"q","_">>

pre_dollar == <<"$">>

n_ref == <<"r","e","f">>

Ref(str) == Obj(<<Fld(REF_KEY, Str(str))>>)
Type(str) == Obj(<<Fld(k_type, Str(str))>>)

\* {"type":"object","properties":{"foo":{"$ref":"/s/a"},
\*  "baz":{"$ref":"/s/b#/$defs/x"},"loc":{"$ref":"#/$defs/k"}},
\*  "$defs":{"k":{"type":"integer"}}}
base_test ==
    Obj(<<Fld(k_type, Str(s_object)),
          Fld(k_properties, Obj(<<Fld(k_foo, Ref(ref_s_a)),
                                  Fld(k_baz, Ref(ref_s_b_x)),
                                  Fld(k_loc, Ref(ref_local_k))>>)),
          Fld(DEFS_KEY, Obj(<<Fld(n_k, Type(s_integer))>>))>>)

\* {"properties":{"foo":{"$ref":"#/$defs/x"}},"$defs":{"x":{"type":"integer"}}}
base_local ==
    Obj(<<Fld(k_properties, Obj(<<Fld(k_foo, Ref(ref_local_x))>>)),
          Fld(DEFS_KEY, Obj(<<Fld(n_x, Type(s_integer))>>))>>)

\* {"type":"object","$defs":{}}
base_plain ==
    Obj(<<Fld(k_type, Str(s_object)), Fld(DEFS_KEY, Obj(<<>>))>>)

\* {"type":"object","properties":{"foo":{"$ref":"#/$defs/x"}}}
base_nodefs ==
    Obj(<<Fld(k_type, Str(s_object)),
          Fld(k_properties, Obj(<<Fld(k_foo, Ref(ref_local_x))>>))>>)

\* {"type":"object"}
base_bare == Type(s_object)

\* {"properties":{"foo":{"$ref":"/s/a"}}}
base_nodefs_ref ==
    Obj(<<Fld(k_properties, Obj(<<Fld(k_foo, Ref(ref_s_a))>>))>>)

\* {"$defs":"x","type":"object"}
base_strdefs ==
    Obj(<<Fld(DEFS_KEY, Str(n_x)), Fld(k_type, Str(s_object))>>)

\* [{"$ref":"/s/a"}]
base_array == Arr(<<Ref(ref_s_a)>>)

\* {"anyOf":[{"$ref":"/s/a#/$defs/x"},{"$ref":"/u/z"}],"$defs":{}}
base_unres ==
    Obj(<<Fld(k_anyOf, Arr(<<Ref(ref_s_a_x), Ref(ref_unknown)>>)),
          Fld(DEFS_KEY, Obj(<<>>))>>)

\* {"properties":{"foo":{"$ref":"s/a"},"baz":{"$ref":"/u/z"}},"$defs":{}}
base_badfirst ==
    Obj(<<Fld(k_properties, Obj(<<Fld(k_foo, Ref(ref_scheme)),
                                  Fld(k_baz, Ref(ref_unknown))>>)),
          Fld(DEFS_KEY, Obj(<<>>))>>)

\* {"$defs":{"a":{"$ref":"/u/z"},"x":{"$ref":"#/$defs/a"}},
\*  "properties":{"foo":{"$ref":"/s/a"}}}
base_clobber ==
    Obj(<<Fld(DEFS_KEY, Obj(<<Fld(n_a, Ref(ref_unknown)),
                              Fld(n_x, Ref(ref_local_a))>>)),
          Fld(k_properties, Obj(<<Fld(k_foo, Ref(ref_s_a))>>))>>)

\* {"properties":{"foo":{"$ref":{"$ref":"/b"}}},"$defs":{}}
base_nonstr ==
    Obj(<<Fld(k_properties,
              Obj(<<Fld(k_foo, Obj(<<Fld(REF_KEY, Ref(ref_b))>>))>>)),
          Fld(DEFS_KEY, Obj(<<>>))>>)

\* {"$defs":{"$ref":"/u/z"},"type":"object"}
base_defsref ==
    Obj(<<Fld(DEFS_KEY, Ref(ref_unknown)), Fld(k_type, Str(s_object))>>)

\* {"$defs":{},"properties":{"foo":{"$ref":"/u/z"}}}
base_defsfirst ==
    Obj(<<Fld(DEFS_KEY, Obj(<<>>)),
          Fld(k_properties, Obj(<<Fld(k_foo, Ref(ref_unknown))>>))>>)

\* {"properties":{"foo":{"$ref":"/s/b"}},"$defs":{}}
base_whole ==
    Obj(<<Fld(k_properties, Obj(<<Fld(k_foo, Ref(ref_s_b))>>)),
          Fld(DEFS_KEY, Obj(<<>>))>>)

\* {"anyOf":[{"$ref":"/b"},{"$ref":"/b#/$defs/b"}],"$defs":{}}
base_pair ==
    Obj(<<Fld(k_anyOf, Arr(<<Ref(ref_b), Ref(ref_b_b)>>)),
          Fld(DEFS_KEY, Obj(<<>>))>>)

\* {"anyOf":[{"$ref":"/s/a#/$defs/x"},{"$ref":"/s/b#/$defs/x"}],"$defs":{}}
base_two ==
    Obj(<<Fld(k_anyOf, Arr(<<Ref(ref_s_a_x), Ref(ref_s_b_x)>>)),
          Fld(DEFS_KEY, Obj(<<>>))>>)

Bases ==
    {base_test, base_local, base_plain, base_nodefs, base_bare, base_nodefs_ref,
     base_strdefs, base_array, base_unres, base_badfirst, base_clobber,
     base_nonstr, base_defsref, base_defsfirst,
     base_whole, base_pair, base_two}

\* {"$id":"/s/a","type":"integer"}
sub_bar == Obj(<<Fld(ID_KEY, Str(id_s_a)), Fld(k_type, Str(s_integer))>>)

\* {"$id":"/s/b","$defs":{"x":{"enum":[1]}}}
sub_qux ==
    Obj(<<Fld(ID_KEY, Str(id_s_b)),
          Fld(DEFS_KEY, Obj(<<Fld(n_x, Obj(<<Fld(k_enum, Arr(<<Num(1)>>))>>))>>))>>)

\* {"$id":"/s/a","$defs":{"x":{"type":"boolean"}},"type":"array",
\*  "items":{"$ref":"#/$defs/x"}}
sub_mid ==
    Obj(<<Fld(ID_KEY, Str(id_s_a)),
          Fld(DEFS_KEY, Obj(<<Fld(n_x, Type(s_boolean))>>)),
          Fld(k_type, Str(s_array)),
          Fld(k_items, Ref(ref_local_x))>>)

\* {"$id":"/b","$defs":{"b":{"type":"boolean"}}}
sub_own ==
    Obj(<<Fld(ID_KEY, Str(id_b)),
          Fld(DEFS_KEY, Obj(<<Fld(n_b, Type(s_boolean))>>))>>)

\* {"type":"integer"}
sub_noid == Type(s_integer)

\* {"$id":1,"type":"integer"}
sub_idnum == Obj(<<Fld(ID_KEY, Num(1)), Fld(k_type, Str(s_integer))>>)

\* {"$id":"/s/a#/$defs/x","type":"integer"}
sub_idboth == Obj(<<Fld(ID_KEY, Str(id_both)), Fld(k_type, Str(s_integer))>>)

\* {"$id":"s/a","type":"integer"}
sub_idscheme == Obj(<<Fld(ID_KEY, Str(id_scheme)), Fld(k_type, Str(s_integer))>>)

\* {"$id":"/s/b","items":{"$ref":"s/a"}}
sub_badref == Obj(<<Fld(ID_KEY, Str(id_s_b)), Fld(k_items, Ref(ref_scheme))>>)

\* {"$id":"/s/b","type":"array","items":{"$ref":"/s/a"}}
sub_ext ==
    Obj(<<Fld(ID_KEY, Str(id_s_b)), Fld(k_type, Str(s_array)),
          Fld(k_items, Ref(ref_s_a))>>)

\* {"$id":"/s/b","$defs":{"$ref":{"type":"boolean"}}}
sub_refkey ==
    Obj(<<Fld(ID_KEY, Str(id_s_b)),
          Fld(DEFS_KEY, Obj(<<Fld(REF_KEY, Type(s_boolean))>>))>>)

\* {"$id":"/s/b","$defs":{"ref":"s/a"}}
sub_strentry ==
    Obj(<<Fld(ID_KEY, Str(id_s_b)),
          Fld(DEFS_KEY, Obj(<<Fld(n_ref, Str(ref_scheme))>>))>>)

\* {"$id":"/b","type":"integer","$defs":{"b":{"type":"boolean"}}}
sub_selfclash ==
    Obj(<<Fld(ID_KEY, Str(id_b)), Fld(k_type, Str(s_integer)),
          Fld(DEFS_KEY, Obj(<<Fld(n_b, Type(s_boolean))>>))>>)

Sub(prefix, doc) == [prefix |-> prefix, doc |-> doc]

SubEntries ==
    {Sub(None, sub_bar), Sub(None, sub_qux), Sub(Some(pre_p), sub_qux),
     Sub(None, sub_mid), Sub(Some(pre_p), sub_mid), Sub(Some(pre_q), sub_mid),
     Sub(None, sub_own), Sub(None, sub_noid), Sub(None, sub_idnum),
     Sub(None, sub_idboth), Sub(None, sub_idscheme), Sub(None, sub_badref),
     Sub(None, sub_ext), Sub(None, sub_refkey), Sub(Some(pre_dollar), sub_strentry),
     Sub(None, sub_selfclash)}

SubLists == UNION {[1..n -> SubEntries] : n \in 0..MaxSubs}

----------------------------------------------------------------------------
(* compose, step by step *)

NoCur ==
    [prefix |-> None, path_prefix |-> <<>>, path_name |-> <<>>,
     new_sub_schema |-> Null]

ComposeIdle ==
    /\ base = Null /\ sub_schemas = <<>> /\ result = Null /\ prefixes = <<>>
    /\ idx = 0 /\ cur = NoCur /\ pc = "idle" /\ err = NoError

RefIdle ==
    /\ rstr0 = None /\ rref0 = None /\ rstr = None /\ rres = None
    /\ rpc = "idle"

Init ==
    /\ base \in Bases
    /\ sub_schemas \in SubLists
    /\ result = Null
    /\ prefixes = <<>>
    /\ idx = 0
    /\ cur = NoCur
    /\ pc = "start"
    /\ err = NoError
    /\ RefIdle

Fail(e) ==
    /\ pc' = "failed"
    /\ err' = e

\* lines 18-24: clone the base, borrow its $defs object, empty registry
CheckDefs ==
    /\ pc = "start"
    /\ result' = base
    /\ IF IsSome(get_defs(base))
       THEN pc' = "loop" /\ err' = err
       ELSE Fail(MissingDefs(base))
    /\ UNCHANGED <<base, sub_schemas, prefixes, idx, cur>>
    /\ UNCHANGED refVars

\* lines 27-49 for sub_schemas[idx+1]: id, registry entry, parsed id,
\* promotion of the sub-schema's own references
\* lines 38-49: the clone with its references promoted, or InvalidRef
Promoted(prefix, id_ref, new_sub_schema) ==
    IF ~new_sub_schema.ok
    THEN Fail(new_sub_schema.err) /\ UNCHANGED cur
    ELSE /\ cur' = [prefix |-> prefix,
                    path_prefix |-> id_ref.path_prefix,
                    path_name |-> id_ref.path_name,
                    new_sub_schema |-> new_sub_schema.value]
         /\ pc' = "top"
         /\ err' = err

\* lines 30-49: the parsed id, or InvalidId
ParsedId(prefix, sub_schema, parsed) ==
    IF ~parsed.ok
    THEN Fail(parsed.err) /\ UNCHANGED cur
    ELSE Promoted(prefix, parsed.value,
            modify_references(sub_schema,
                promote_closure(parsed.value.path_prefix, parsed.value.path_name)))

\* lines 27-49: the id, or MissingId; the registry entry
Registered(prefix, sub_schema, id) ==
    IF ~id.ok
    THEN Fail(id.err) /\ UNCHANGED <<prefixes, cur>>
    ELSE /\ prefixes' = hash_insert(prefixes, id.value, prefix)
         /\ ParsedId(prefix, sub_schema, parse_id(id.value))

PrepareSub ==
    /\ pc = "loop"
    /\ idx < Len(sub_schemas)
    /\ Registered(sub_schemas[idx+1].prefix, sub_schemas[idx+1].doc,
                  get_id(sub_schemas[idx+1].doc))
    /\ UNCHANGED <<base, sub_schemas, result, idx>>
    /\ UNCHANGED refVars

\* lines 51-56: the sub-schema's top-level definition, when it has one
InsertTopLevel ==
    /\ pc = "top"
    /\ LET top_level_def == get_top_level_def(cur.new_sub_schema)
       IN IF IsSome(top_level_def)
          THEN result' = set_defs(result,
                    map_insert(get_defs(result)[1],
                               unwrap_or_default(cur.prefix) \o cur.path_name,
                               top_level_def[1]))
          ELSE result' = result
    /\ pc' = "defs"
    /\ UNCHANGED <<base, sub_schemas, prefixes, idx, cur, err>>
    /\ UNCHANGED refVars

\* lines 58-69: the entries of the sub-schema's $defs, end of the iteration
InsertDefs ==
    /\ pc = "defs"
    /\ LET fields == get_defs(cur.new_sub_schema)
       IN IF IsSome(fields)
          THEN result' = set_defs(result,
                    insert_fields(get_defs(result)[1], cur.prefix, fields[1]))
          ELSE result' = result
    /\ idx' = idx + 1
    /\ cur' = NoCur
    /\ pc' = "loop"
    /\ UNCHANGED <<base, sub_schemas, prefixes, err>>
    /\ UNCHANGED refVars

\* lines 71-91: the references of the merged document resolved
\* lines 89-91: `?` on the walk's result, then Ok(result)
Resolved(r) ==
    IF r.ok
    THEN result' = r.value /\ pc' = "done" /\ err' = err
    ELSE result' = result /\ Fail(r.err)

RewriteResult ==
    /\ pc = "loop"
    /\ idx = Len(sub_schemas)
    /\ Resolved(modify_references(result, resolve_closure(prefixes)))
    /\ UNCHANGED <<base, sub_schemas, prefixes, idx, cur>>
    /\ UNCHANGED refVars

Next ==
    \/ CheckDefs
    \/ PrepareSub
    \/ InsertTopLevel
    \/ InsertDefs
    \/ RewriteResult

Spec == Init /\ [][Next]_vars

----------------------------------------------------------------------------
(* The reference grammar on its own: parse then Display, Display then parse *)

Pieces ==
    {<<"/">>, <<"#">>, FragLiteral, <<"a">>, <<"/", "b", "_">>, <<"?">>, <<"-">>}

\* every string made of at most MaxPieces pieces
RefStrings ==
    {Flatten(ps) : ps \in UNION {[1..n -> Pieces] : n \in 0..MaxPieces}}

Segments == {<<"a">>, <<"b", "_">>, <<"d", "e", "f", "s">>}

SegmentSeqs == UNION {[1..n -> Segments] : n \in 0..MaxSegs}

\* every Reference whose segments are non-empty word-character strings
References ==
    {PathOnly(pp, pn) : pp \in SegmentSeqs, pn \in Segments}
        \cup {FragmentOnly(fn) : fn \in Segments}
        \cup {Both(pp, pn, fn) : pp \in SegmentSeqs, pn \in Segments, fn \in Segments}

RefInit ==
    /\ ComposeIdle
    /\ rstr = None
    /\ rres = None
    /\ \/ rstr0 \in {Some(str) : str \in RefStrings} /\ rref0 = None /\ rpc = "str"
       \/ rref0 \in {Some(ref) : ref \in References} /\ rstr0 = None /\ rpc = "ref"

\* s.parse::<Reference>() on the given string
ParseInput ==
    /\ rpc = "str"
    /\ rres' = Some(from_str(rstr0[1]))
    /\ rpc' = IF from_str(rstr0[1]).ok THEN "parsed" ELSE "rejected"
    /\ UNCHANGED <<rstr0, rref0, rstr>>
    /\ UNCHANGED composeVars

\* to_string() of the Reference just parsed
DisplayParsed ==
    /\ rpc = "parsed"
    /\ rstr' = Some(to_string(rres[1].ref))
    /\ rpc' = "shown"
    /\ UNCHANGED <<rstr0, rref0, rres>>
    /\ UNCHANGED composeVars

\* to_string() of the given Reference
DisplayInput ==
    /\ rpc = "ref"
    /\ rstr' = Some(to_string(rref0[1]))
    /\ rpc' = "written"
    /\ UNCHANGED <<rstr0, rref0, rres>>
    /\ UNCHANGED composeVars

\* parse of the string just written
ParseWritten ==
    /\ rpc = "written"
    /\ rres' = Some(from_str(rstr[1]))
    /\ rpc' = "reparsed"
    /\ UNCHANGED <<rstr0, rref0, rstr>>
    /\ UNCHANGED composeVars

RefNext ==
    \/ ParseInput
    \/ DisplayParsed
    \/ DisplayInput
    \/ ParseWritten

SpecRef == RefInit /\ [][RefNext]_vars

----------------------------------------------------------------------------
(* Vocabulary of the properties: places in a document, the references     *)
(* found there, what the sub-schemas supply                                *)

KeyStep(key) == [k |-> key, i |-> 0]
IdxStep(n) == [k |-> <<>>, i |-> n]

\* the places of a document: every sequence of steps leading to a value
RECURSIVE Nodes(_)
Nodes(v) ==
    {<<>>} \cup
    IF v.t = "array"
    THEN UNION {{<<IdxStep(n)>> \o q : q \in Nodes(v.a[n])} : n \in 1..Len(v.a)}
    ELSE IF v.t = "object"
    THEN UNION {{<<KeyStep(v.f[n].k)>> \o q : q \in Nodes(v.f[n].v)} :
                    n \in 1..Len(v.f)}
    ELSE {}

\* the value at a place, None when the document has no such place
RECURSIVE NodeAt(_, _)
NodeAt(v, q) ==
    IF q = <<>>
    THEN Some(v)
    ELSE IF Head(q).i # 0
    THEN IF v.t = "array" /\ Head(q).i <= Len(v.a)
         THEN NodeAt(v.a[Head(q).i], Tail(q))
         ELSE None
    ELSE IF IsSome(get(v, Head(q).k))
         THEN NodeAt(get(v, Head(q).k)[1], Tail(q))
         ELSE None

\* the string-valued $ref of the object at a place, None when there is none
RefStringAt(doc, q) ==
    LET node == NodeAt(doc, q)
    IN IF IsSome(node) /\ IsSome(get(node[1], REF_KEY))
            /\ get(node[1], REF_KEY)[1].t = "string"
       THEN Some(get(node[1], REF_KEY)[1].s)
       ELSE None

RefSites(doc) == {q \in Nodes(doc) : IsSome(RefStringAt(doc, q))}

KeysOf(fields) == [n \in 1..Len(fields) |-> fields[n].k]
KeySet(fields) == {fields[n].k : n \in 1..Len(fields)}

AfterLastSlash(str) == SubSeq(str, LastIndexOf(str, "/") + 1, Len(str))
BeforeHash(str) ==
    IF Contains(str, "#") THEN SubSeq(str, 1, IndexOf(str, "#") - 1) ELSE str

IsLocalRef(str) == from_str(str).ok /\ from_str(str).ref.variant = "FragmentOnly"
HasPathComponent(str) ==
    from_str(str).ok /\ from_str(str).ref.variant \in {"PathOnly", "Both"}

HasStringId(doc) == IsSome(get(doc, ID_KEY)) /\ get(doc, ID_KEY)[1].t = "string"
IdOf(doc) == get(doc, ID_KEY)[1].s
IsPathOnlyId(str) == from_str(str).ok /\ from_str(str).ref.variant = "PathOnly"
HasValidId(doc) == HasStringId(doc) /\ IsPathOnlyId(IdOf(doc))

\* the $id strings of the supplied sub-schemas
SuppliedIds ==
    {IdOf(sub_schemas[n].doc) :
        n \in {m \in 1..Len(sub_schemas) : HasStringId(sub_schemas[m].doc)}}

\* the prefix registered for an identifier: that of the last sub-schema
\* carrying it, the empty string when that one has no prefix
RegisteredPrefix(id) ==
    LET ns == {m \in 1..Len(sub_schemas) :
                  HasStringId(sub_schemas[m].doc) /\ IdOf(sub_schemas[m].doc) = id}
        last == CHOOSE m \in ns : \A o \in ns : o <= m
    IN IF IsSome(sub_schemas[last].prefix) THEN sub_schemas[last].prefix[1] ELSE <<>>

\* the local reference a reference to a supplied identifier should become
ExpectedLocal(str) ==
    FragLiteral \o RegisteredPrefix(BeforeHash(str)) \o AfterLastSlash(str)

\* an object with at least one key other than $id and $defs
HasOtherKeys(doc) ==
    doc.t = "object" /\ KeySet(doc.f) \ {ID_KEY, DEFS_KEY} # {}

OwnDefsKeys(doc) ==
    IF IsSome(get(doc, DEFS_KEY)) /\ get(doc, DEFS_KEY)[1].t = "object"
    THEN KeySet(get(doc, DEFS_KEY)[1].f)
    ELSE {}

\* the keys under which the sub-schemas put entries into the base's $defs
InsertedKeys ==
    UNION {
        LET e == sub_schemas[n]
            pre == IF IsSome(e.prefix) THEN e.prefix[1] ELSE <<>>
        IN (IF HasOtherKeys(e.doc) THEN {pre \o AfterLastSlash(IdOf(e.doc))} ELSE {})
             \cup {pre \o key : key \in OwnDefsKeys(e.doc)}
        : n \in {m \in 1..Len(sub_schemas) : HasValidId(sub_schemas[m].doc)}}

\* a place of the base whose reference is, or lies inside, a $defs entry
\* which a sub-schema's insertion replaces
Replaced(q) ==
    \/ Len(q) >= 2 /\ q[1] = KeyStep(DEFS_KEY) /\ q[2].i = 0 /\ q[2].k \in InsertedKeys
    \/ q = <<KeyStep(DEFS_KEY)>> /\ REF_KEY \in InsertedKeys

\* every string $ref of the document obeys the reference grammar
RefsParse(doc) == \A q \in RefSites(doc) : from_str(RefStringAt(doc, q)[1]).ok

WellFormedSub(doc) == HasValidId(doc) /\ RefsParse(doc)

BaseHasDefs ==
    base.t = "object" /\ DEFS_KEY \in KeySet(base.f)
        /\ base.f[map_index(base.f, DEFS_KEY)].v.t = "object"

Returned == pc \in {"done", "failed"}

----------------------------------------------------------------------------
(* C1 *)

\* what C1 asks of the reference found at place q of the base
RewrittenAt(q) ==
    LET str == RefStringAt(base, q)[1]
    IN /\ (HasPathComponent(str) /\ BeforeHash(str) \in SuppliedIds)
            => RefStringAt(result, q) = Some(ExpectedLocal(str))
       /\ IsLocalRef(str) => RefStringAt(result, q) = Some(str)

\* C1 as stated: when compose succeeds, every reference of the base with a
\* path component whose identifier is a supplied $id has become the local
\* reference #/$defs/(prefix ++ name), and every FragmentOnly reference of the
\* base is as it was.
C1_AsStated == pc = "done" => \A q \in RefSites(base) : RewrittenAt(q)

\* C1, amended: the same, for every reference of the base that does not lie
\* inside a $defs entry of the base which a sub-schema's insertion replaces.
C1_Rewrite ==
    pc = "done" => \A q \in RefSites(base) : ~Replaced(q) => RewrittenAt(q)

\* a successful compose that rewrote a PathOnly and a Both reference of the
\* base, the Both one under a registered prefix, and kept a local one
C1_Witness ==
    /\ pc = "done"
    /\ \E q \in RefSites(base) :
          /\ from_str(RefStringAt(base, q)[1]).ref.variant = "Both"
          /\ RegisteredPrefix(BeforeHash(RefStringAt(base, q)[1])) # <<>>
          /\ RefStringAt(result, q) = Some(ExpectedLocal(RefStringAt(base, q)[1]))
    /\ \E q \in RefSites(base) :
          /\ from_str(RefStringAt(base, q)[1]).ref.variant = "PathOnly"
          /\ RefStringAt(result, q) # RefStringAt(base, q)
    /\ \E q \in RefSites(base) : IsLocalRef(RefStringAt(base, q)[1])

----------------------------------------------------------------------------
(* C2 *)

\* a local reference #/$defs/<name>
LocalForm(str) ==
    /\ Len(str) > Len(FragLiteral)
    /\ SubSeq(str, 1, Len(FragLiteral)) = FragLiteral
    /\ ~StartsWith(str, "/")

\* C2: whenever compose returns a document, every string-valued $ref in it,
\* in the base's own content and in the merged definitions, is a local
\* reference #/$defs/<name>; none has a path component.
C2_SelfContained ==
    pc = "done" => \A q \in RefSites(result) : LocalForm(RefStringAt(result, q)[1])

\* a returned document holding references both outside $defs and inside a
\* definition merged from a sub-schema, where the base had a Both reference
C2_Witness ==
    /\ pc = "done"
    /\ \E q \in RefSites(result) : q[1] # KeyStep(DEFS_KEY)
    /\ \E q \in RefSites(result) :
          q[1] = KeyStep(DEFS_KEY) /\ q[2].k \in InsertedKeys
    /\ \E q \in RefSites(base) :
          from_str(RefStringAt(base, q)[1]).ref.variant = "Both"

----------------------------------------------------------------------------
(* C3 *)

\* the place q of the base holds a reference with a path component whose
\* identifier no sub-schema supplies
Unresolved(q) ==
    /\ HasPathComponent(RefStringAt(base, q)[1])
    /\ BeforeHash(RefStringAt(base, q)[1]) \notin SuppliedIds

AllSubsWellFormed ==
    \A n \in 1..Len(sub_schemas) : WellFormedSub(sub_schemas[n].doc)

\* no sub-schema's $defs entry is a string that lands under the key $ref of
\* the base's $defs without obeying the reference grammar
InsertedRefsParse ==
    \A n \in 1..Len(sub_schemas) :
        LET e == sub_schemas[n]
        IN \A key \in OwnDefsKeys(e.doc) :
              LET value == get(get(e.doc, DEFS_KEY)[1], key)[1]
              IN (unwrap_or_default(e.prefix) \o key = REF_KEY /\ value.t = "string")
                    => from_str(value.s).ok

\* C3 as stated: a base with a $defs object, well-formed sub-schemas and an
\* unresolved reference in the base make compose fail with InvalidId.
C3_AsStated ==
    (/\ Returned
     /\ BaseHasDefs
     /\ AllSubsWellFormed
     /\ \E q \in RefSites(base) : Unresolved(q))
        => (pc = "failed" /\ err.kind = "InvalidId")

\* C3, amended: the same, provided every string $ref of the base, and every
\* string a sub-schema's insertion puts under the key $ref of the base's
\* $defs, obeys the reference grammar and the unresolved reference is not,
\* and does not lie inside, a $defs entry of the base which a sub-schema's
\* insertion replaces.
C3_Unresolved ==
    (/\ Returned
     /\ BaseHasDefs
     /\ AllSubsWellFormed
     /\ RefsParse(base)
     /\ InsertedRefsParse
     /\ \E q \in RefSites(base) : Unresolved(q) /\ ~Replaced(q))
        => (pc = "failed" /\ err.kind = "InvalidId")

\* compose failed with InvalidId on an unresolved reference of the base
\* although well-formed sub-schemas were supplied and merged
C3_Witness ==
    /\ pc = "failed"
    /\ err.kind = "InvalidId"
    /\ BaseHasDefs
    /\ AllSubsWellFormed
    /\ RefsParse(base)
    /\ InsertedRefsParse
    /\ Len(sub_schemas) > 0
    /\ \E q \in RefSites(base) :
          Unresolved(q) /\ ~Replaced(q) /\ err.value = RefStringAt(base, q)[1]
    /\ \E q \in RefSites(base) :
          HasPathComponent(RefStringAt(base, q)[1]) /\ ~Unresolved(q)

----------------------------------------------------------------------------
(* C4 *)

\* C4: a base without a $defs object makes compose fail with MissingDefs
\* whatever the sub-schemas are, before any sub-schema is examined.
C4_MissingDefs ==
    (~BaseHasDefs /\ pc # "start")
        => (/\ pc = "failed"
            /\ err.kind = "MissingDefs"
            /\ err.value = base
            /\ idx = 0
            /\ prefixes = <<>>)

\* MissingDefs returned although the first sub-schema has no $id
C4_Witness ==
    /\ pc = "failed"
    /\ err.kind = "MissingDefs"
    /\ base.t = "object"
    /\ DEFS_KEY \in KeySet(base.f)
    /\ Len(sub_schemas) > 0
    /\ ~HasStringId(sub_schemas[1].doc)

----------------------------------------------------------------------------
(* C5 *)

\* compose stopped while examining sub_schemas[idx+1]
FailedInLoop ==
    pc = "failed" /\ err.kind # "MissingDefs" /\ idx < Len(sub_schemas)

\* C5: the sub-schemas are examined in input order; one without a
\* string-valued $id makes compose fail with MissingId, one whose $id is not
\* a PathOnly reference makes it fail with InvalidId carrying that string,
\* never with InvalidRef; compose never gets past such a sub-schema.
C5_SubId ==
    /\ \A n \in 1..idx : HasValidId(sub_schemas[n].doc)
    /\ pc \in {"top", "defs"} => HasValidId(sub_schemas[idx+1].doc)
    /\ FailedInLoop =>
          LET doc == sub_schemas[idx+1].doc
          IN /\ ~HasStringId(doc) => (err.kind = "MissingId" /\ err.value = doc)
             /\ (HasStringId(doc) /\ ~IsPathOnlyId(IdOf(doc)))
                    => (err.kind = "InvalidId" /\ err.value = IdOf(doc))

\* the second sub-schema, reached after the first was merged, has an $id
\* with a fragment and compose failed with InvalidId carrying it
C5_Witness ==
    /\ pc = "failed"
    /\ idx = 1
    /\ err.kind = "InvalidId"
    /\ err.value = id_both
    /\ HasStringId(sub_schemas[2].doc)
    /\ IdOf(sub_schemas[2].doc) = id_both

----------------------------------------------------------------------------
(* C6 *)

\* C6: Display after parse gives back every accepted string, and parse after
\* Display gives back every Reference made of non-empty word segments.
C6_RoundTrip ==
    /\ rpc = "shown" => rstr = rstr0
    /\ rpc = "reparsed" => (rres[1].ok /\ rres[1].ref = rref0[1])

\* an accepted string with a path prefix and a fragment went through parse
\* and Display
C6_Witness ==
    /\ rpc = "shown"
    /\ rres[1].ref.variant = "Both"
    /\ rres[1].ref.path_prefix # <<>>
    /\ rstr = rstr0

----------------------------------------------------------------------------
(* C7 *)

\* the keys of doc, in order, without $defs
RECURSIVE WithoutDefs(_)
WithoutDefs(keys) ==
    IF keys = <<>>
    THEN <<>>
    ELSE IF Head(keys) = DEFS_KEY
    THEN WithoutDefs(Tail(keys))
    ELSE <<Head(keys)>> \o WithoutDefs(Tail(keys))

\* the entry of the result's $defs under key
DefsEntry(doc, key) ==
    IF IsSome(get(doc, DEFS_KEY)) THEN get(get(doc, DEFS_KEY)[1], key) ELSE None

CurKey == unwrap_or_default(cur.prefix) \o cur.path_name

\* C7: the top-level definition merged from a sub-schema lists the
\* sub-schema's keys, minus $defs, in their original order.
C7_KeyOrder ==
    (pc = "defs" /\ HasOtherKeys(sub_schemas[idx+1].doc))
        => /\ IsSome(DefsEntry(result, CurKey))
           /\ KeysOf(DefsEntry(result, CurKey)[1].f)
                = WithoutDefs(KeysOf(sub_schemas[idx+1].doc.f))

----------------------------------------------------------------------------
(* C8 *)

\* the same sub-schema supplied twice under two different non-empty prefixes
TwiceUnderPrefixes ==
    /\ Len(sub_schemas) = 2
    /\ sub_schemas[1].doc = sub_schemas[2].doc
    /\ IsSome(sub_schemas[1].prefix)
    /\ IsSome(sub_schemas[2].prefix)
    /\ sub_schemas[1].prefix[1] # <<>>
    /\ sub_schemas[2].prefix[1] # <<>>
    /\ sub_schemas[1].prefix # sub_schemas[2].prefix

\* the names the sub-schema contributes
ContributedNames(doc) ==
    (IF HasOtherKeys(doc) THEN {AfterLastSlash(IdOf(doc))} ELSE {})
        \cup OwnDefsKeys(doc)

\* inside the entry merged under pre ++ nm, every reference that was a
\* self-reference #/$defs/x of the sub-schema points at pre ++ x
PointsAtOwnCopy(doc, pre, nm) ==
    LET src == IF nm \in OwnDefsKeys(doc)
               THEN get(get(doc, DEFS_KEY)[1], nm)[1]
               ELSE doc
        entry == DefsEntry(result, pre \o nm)[1]
    IN \A q \in RefSites(src) :
          (IsLocalRef(RefStringAt(src, q)[1]) /\ IsSome(RefStringAt(entry, q)))
              => RefStringAt(entry, q)
                    = Some(FragLiteral \o pre \o AfterLastSlash(RefStringAt(src, q)[1]))

\* C8: the same sub-schema composed twice under two different non-empty
\* prefixes gives, for every name it contributes, two entries in the merged
\* $defs, one per prefix, and the self-references inside each copy point at
\* that copy's entries.
C8_PrefixIsolation ==
    (pc = "done" /\ TwiceUnderPrefixes)
        => \A n \in 1..2 :
              \A nm \in ContributedNames(sub_schemas[n].doc) :
                 /\ IsSome(DefsEntry(result, sub_schemas[n].prefix[1] \o nm))
                 /\ PointsAtOwnCopy(sub_schemas[n].doc, sub_schemas[n].prefix[1], nm)

----------------------------------------------------------------------------
(* C9 *)

\* no cross-document reference: every string $ref is a FragmentOnly reference
NoCrossRefs(doc) == \A q \in RefSites(doc) : IsLocalRef(RefStringAt(doc, q)[1])

\* C9 as stated: a base without cross-document references composed with no
\* sub-schema succeeds and gives back the base.
C9_AsStated ==
    (Returned /\ sub_schemas = <<>> /\ NoCrossRefs(base))
        => (pc = "done" /\ result = base)

\* C9, amended: the same for a base that has a $defs object.
C9_Identity ==
    (Returned /\ sub_schemas = <<>> /\ NoCrossRefs(base) /\ BaseHasDefs)
        => (pc = "done" /\ result = base)

\* a base with a local reference and a non-empty $defs came back unchanged
C9_Witness ==
    /\ pc = "done"
    /\ sub_schemas = <<>>
    /\ BaseHasDefs
    /\ NoCrossRefs(base)
    /\ RefSites(base) # {}
    /\ result = base

----------------------------------------------------------------------------
(* C10 *)

\* the value is the sub-schema as promoted, without its $defs field and with
\* its $id field
StrippedCopy(value, sub) ==
    /\ value.t = "object"
    /\ KeySet(value.f) = KeySet(sub.f) \ {DEFS_KEY}
    /\ ID_KEY \in KeySet(value.f)
    /\ \A key \in KeySet(value.f) : get(value, key) = get(sub, key)

\* every entry of $defs other than the one under key is the same in d and e
SameElsewhere(d, e, key) ==
    \A o \in (KeySet(get(d, DEFS_KEY)[1].f) \cup KeySet(get(e, DEFS_KEY)[1].f)) \ {key} :
        DefsEntry(d, o) = DefsEntry(e, o)

\* the top-level step of an iteration: an insertion under prefix ++ path_name
\* exactly when the sub-schema has a key other than $id and $defs
TopLevelStep ==
    pc = "top" =>
        IF HasOtherKeys(sub_schemas[idx+1].doc)
        THEN /\ IsSome(DefsEntry(result', CurKey))
             /\ StrippedCopy(DefsEntry(result', CurKey)[1], cur.new_sub_schema)
             /\ SameElsewhere(result, result', CurKey)
        ELSE result' = result

\* C10 as stated: the top-level step as above, and a sub-schema holding only
\* $id and/or $defs leaves the entry under prefix ++ path_name as it was.
C10_AsStated ==
    [][/\ TopLevelStep
       /\ (pc = "defs" /\ ~HasOtherKeys(sub_schemas[idx+1].doc))
            => DefsEntry(result', CurKey) = DefsEntry(result, CurKey)]_vars

\* C10, amended: the top-level step as above, and a sub-schema holding only
\* $id and/or $defs leaves the entry under prefix ++ path_name as it was
\* unless its own $defs has an entry named path_name.
C10_TopLevel ==
    [][/\ TopLevelStep
       /\ (/\ pc = "defs"
           /\ ~HasOtherKeys(sub_schemas[idx+1].doc)
           /\ cur.path_name \notin OwnDefsKeys(sub_schemas[idx+1].doc))
            => DefsEntry(result', CurKey) = DefsEntry(result, CurKey)]_vars

\* a sub-schema with $defs in the middle of its keys was merged under a
\* prefix as a top-level definition
C10_Witness ==
    /\ pc = "defs"
    /\ HasOtherKeys(sub_schemas[idx+1].doc)
    /\ DEFS_KEY \in KeySet(sub_schemas[idx+1].doc.f)
    /\ cur.prefix # None
    /\ IsSome(DefsEntry(result, CurKey))
    /\ DEFS_KEY \notin KeySet(DefsEntry(result, CurKey)[1].f)

----------------------------------------------------------------------------
(* C12 *)

HasQuestionMark(str) == \E n \in 1..Len(str) : str[n] = "?"
StartsWithSlashOrHash(str) == Len(str) > 0 /\ str[1] \in {"/", "#"}

\* the string given to parse was rejected for this reason
RejectedFor(reason) ==
    /\ ~rres[1].ok
    /\ rres[1].reason = reason
    /\ rres[1].value = rstr0[1]

\* C12 as stated: every string containing '?' is rejected with HasQuery,
\* every string not starting with '/' or '#' is rejected with HasScheme, and
\* every other rejected string is rejected with InvalidStructure.
C12_AsStated ==
    rpc \in {"parsed", "rejected"} =>
        /\ HasQuestionMark(rstr0[1]) => RejectedFor("HasQuery")
        /\ ~StartsWithSlashOrHash(rstr0[1]) => RejectedFor("HasScheme")
        /\ (rpc = "rejected" /\ ~HasQuestionMark(rstr0[1])
                /\ StartsWithSlashOrHash(rstr0[1]))
              => RejectedFor("InvalidStructure")

\* C12, amended: every string not starting with '/' or '#' is rejected with
\* HasScheme, whether or not it contains '?'; every string starting with '/'
\* or '#' that contains '?' is rejected with HasQuery; every other rejected
\* string is rejected with InvalidStructure.
C12_Reasons ==
    rpc \in {"parsed", "rejected"} =>
        /\ ~StartsWithSlashOrHash(rstr0[1]) => RejectedFor("HasScheme")
        /\ (StartsWithSlashOrHash(rstr0[1]) /\ HasQuestionMark(rstr0[1]))
              => RejectedFor("HasQuery")
        /\ (rpc = "rejected" /\ ~HasQuestionMark(rstr0[1])
                /\ StartsWithSlashOrHash(rstr0[1]))
              => RejectedFor("InvalidStructure")

\* a string with a path, a fragment and then a '?' was rejected with HasQuery
C12_Witness ==
    /\ rpc = "rejected"
    /\ Len(rstr0[1]) > 2
    /\ rstr0[1][1] = "/"
    /\ rstr0[1][Len(rstr0[1])] = "?"
    /\ \E n \in 1..Len(rstr0[1]) : rstr0[1][n] = "#"
    /\ RejectedFor("HasQuery")

----------------------------------------------------------------------------
(* C11 *)

\* the sub-schema as it is merged: its own references promoted
PromotedDoc(n) ==
    LET doc == sub_schemas[n].doc
        id == parse_id(IdOf(doc)).value
    IN modify_references(doc, promote_closure(id.path_prefix, id.path_name)).value

PrefixOf(n) == unwrap_or_default(sub_schemas[n].prefix)

\* the key of the top-level insertion of sub-schema n, when it makes one
TopKeys(n) ==
    IF HasOtherKeys(sub_schemas[n].doc)
    THEN {PrefixOf(n) \o AfterLastSlash(IdOf(sub_schemas[n].doc))}
    ELSE {}

\* the keys of the insertions made for the $defs entries of sub-schema n
EntryKeys(n) == {PrefixOf(n) \o key : key \in OwnDefsKeys(sub_schemas[n].doc)}

KeysInsertedBy(n) == TopKeys(n) \cup EntryKeys(n)

\* the $defs entry of sub-schema n that is inserted under key
EntryInsertedAs(n, key) ==
    LET own == CHOOSE o \in OwnDefsKeys(sub_schemas[n].doc) : PrefixOf(n) \o o = key
    IN get(get(PromotedDoc(n), DEFS_KEY)[1], own)[1]

\* the entry under key is what the last insertion of sub-schema n under that
\* key put there: a $defs entry if there is one, else the top-level definition
HoldsInsertionOf(doc, n, key) ==
    /\ IsSome(DefsEntry(doc, key))
    /\ IF key \in EntryKeys(n)
       THEN DefsEntry(doc, key)[1] = EntryInsertedAs(n, key)
       ELSE StrippedCopy(DefsEntry(doc, key)[1], PromotedDoc(n))

\* the last of the first m sub-schemas that inserts under key
LastInserter(m, key) ==
    CHOOSE n \in 1..m :
        /\ key \in KeysInsertedBy(n)
        /\ \A o \in 1..m : key \in KeysInsertedBy(o) => o <= n

\* after m sub-schemas: every key of the base's $defs and every inserted key
\* is there, and an inserted key holds the value of its last insertion
MergedSoFar(m) ==
    /\ OwnDefsKeys(base) \subseteq OwnDefsKeys(result)
    /\ \A n \in 1..m :
          \A key \in KeysInsertedBy(n) :
              HoldsInsertionOf(result, LastInserter(m, key), key)

\* a step of compose never takes a key out of $defs, and the two insertion
\* steps never fail
InsertionOnlyStep ==
    /\ pc \in {"loop", "top", "defs"} => OwnDefsKeys(result) \subseteq OwnDefsKeys(result')
    /\ pc \in {"top", "defs"} => (pc' # "failed" /\ err' = err)

\* C11: during the merge loop no key of $defs, the base's own included, ever
\* disappears, an insertion under a key already present never fails, and
\* after each sub-schema a key inserted more than once holds the value of the
\* latest insertion, a sub-schema's $defs entries coming after its top-level
\* definition.
C11_InsertionOnly ==
    /\ [](pc = "loop" => MergedSoFar(idx))
    /\ [][InsertionOnlyStep]_vars

\* two sub-schemas have put different top-level definitions under one key,
\* which the base's $defs had already; the second one's is there
C11_Witness ==
    /\ pc = "loop"
    /\ idx = 2
    /\ \E key \in TopKeys(1) \cap TopKeys(2) \cap OwnDefsKeys(base) :
          /\ ~StrippedCopy(DefsEntry(result, key)[1], PromotedDoc(1))
          /\ StrippedCopy(DefsEntry(result, key)[1], PromotedDoc(2))
          /\ DefsEntry(result, key) # DefsEntry(base, key)

----------------------------------------------------------------------------
(* C13 *)

\* the promotion step on sub-schema n: a reference #/$defs/x has become
\* I#/$defs/x, I the sub-schema's $id, and every other reference is as it was
PromotionOf(n, promoted) ==
    LET doc == sub_schemas[n].doc
    IN \A q \in RefSites(doc) :
          LET str == RefStringAt(doc, q)[1]
          IN IF IsLocalRef(str)
             THEN RefStringAt(promoted, q) = Some(IdOf(doc) \o str)
             ELSE RefStringAt(promoted, q) = Some(str)

\* the place in the composed document of what sub-schema n had at place q,
\* None when q is not inside its top-level definition or a $defs entry
MergedPlace(n, q) ==
    IF Len(q) >= 2 /\ q[1] = KeyStep(DEFS_KEY) /\ q[2].i = 0
    THEN Some(<<KeyStep(DEFS_KEY), KeyStep(PrefixOf(n) \o q[2].k)>>
                 \o SubSeq(q, 3, Len(q)))
    ELSE IF q = <<>> \/ q[1] # KeyStep(DEFS_KEY)
    THEN Some(<<KeyStep(DEFS_KEY),
                KeyStep(PrefixOf(n) \o AfterLastSlash(IdOf(sub_schemas[n].doc)))>>
                 \o q)
    ELSE None

\* the entry at that place of the composed document is still the one
\* sub-schema n put there
StillOwn(n, q) ==
    /\ IsSome(MergedPlace(n, q))
    /\ LET key == MergedPlace(n, q)[1][2].k
       IN /\ LastInserter(Len(sub_schemas), key) = n
          /\ (q = <<>> \/ q[1] # KeyStep(DEFS_KEY)) => key \notin EntryKeys(n)

\* C13: the promotion step turns every reference #/$defs/x of a sub-schema
\* with $id I into I#/$defs/x and leaves its other references alone; in the
\* composed document the reference reads #/$defs/(p ++ x), p the prefix the
\* sub-schema was merged under, inside its merged top-level definition and
\* inside its merged $defs entries.
C13_SelfRefs ==
    /\ pc = "top" => PromotionOf(idx + 1, cur.new_sub_schema)
    /\ pc = "done" =>
          \A n \in 1..Len(sub_schemas) :
             \A q \in RefSites(sub_schemas[n].doc) :
                (IsLocalRef(RefStringAt(sub_schemas[n].doc, q)[1]) /\ StillOwn(n, q))
                    => RefStringAt(result, MergedPlace(n, q)[1])
                          = Some(FragLiteral \o PrefixOf(n)
                                   \o AfterLastSlash(RefStringAt(sub_schemas[n].doc, q)[1]))

----------------------------------------------------------------------------
(* C14 *)

\* the name k of a local reference #/$defs/k
LocalName(str) == SubSeq(str, Len(FragLiteral) + 1, Len(str))

\* the final pass has succeeded, and every reference it rewrote, that is
\* every reference of the merged document with a path component, now names
\* a key of the composed document's $defs
NoDanglingStep ==
    (pc = "loop" /\ pc' = "done") =>
        \A q \in RefSites(result) :
            HasPathComponent(RefStringAt(result, q)[1])
                => /\ IsSome(RefStringAt(result', q))
                   /\ LocalForm(RefStringAt(result', q)[1])
                   /\ LocalName(RefStringAt(result', q)[1]) \in OwnDefsKeys(result')

\* C14: whenever compose succeeds, every local reference #/$defs/k of the
\* result that came from rewriting a reference with a path component names a
\* key k of the result's $defs.
C14_NoDangling == [][NoDanglingStep]_vars

----------------------------------------------------------------------------
(* C15 *)

\* the places of the base holding a reference with a path component that no
\* insertion has replaced
BaseCrossRefs ==
    {q \in RefSites(base) : HasPathComponent(RefStringAt(base, q)[1]) /\ ~Replaced(q)}

\* C15: whenever compose succeeds, two references of the base with a path
\* component that differ, in the document identifier, in the fragment name
\* or in having a fragment, have not become the same local reference.
C15_TargetsApart ==
    pc = "done" =>
        \A q1, q2 \in BaseCrossRefs :
            RefStringAt(base, q1) # RefStringAt(base, q2)
                => RefStringAt(result, q1) # RefStringAt(result, q2)

====
